---- MODULE Spec2Model ----
(***************************************************************************)
(* Model of the ETL pipeline (extract -> transform -> validate -> load).   *)
(* Tables are pandas data frames: a set of column names and a sequence of  *)
(* rows; files are a storage format plus the table stored in them.         *)
(***************************************************************************)
EXTENDS Integers, Sequences, FiniteSets, TLC

(***************************************************************************)
(* Bounds of the model.                                                    *)
(***************************************************************************)
\* longest table drawn as raw input over the columns id and hour
MaxRows == 3
\* longest table drawn as raw input over any subset of the expected columns
MaxSchemaRows == 1

(***************************************************************************)
(* Cell values.  Every cell is a record with the same fields so that any   *)
(* two cells compare: k is the kind, i an integer payload (the integer, or *)
(* a timestamp's whole seconds since 1970-01-01), ns a timestamp's         *)
(* nanoseconds within the second, s a string payload.                      *)
(***************************************************************************)
Null == [k |-> "null", i |-> 0, ns |-> 0, s |-> ""]
IntV(n) == [k |-> "int", i |-> n, ns |-> 0, s |-> ""]
StrV(t) == [k |-> "str", i |-> 0, ns |-> 0, s |-> t]
TsV(sec, nano) == [k |-> "ts", i |-> sec, ns |-> nano, s |-> ""]
NaT == Null

NsPerSec == 1000000000
SecPerHour == 3600
SecPerDay == 86400
HoursPerDay == 24
DaysPerWeek == 7
\* 1970-01-01 was a Thursday; pandas counts Monday as 0
EpochWeekday == 3

\* Date strings the parser understands, with the instant each denotes
\* (days since the epoch, hour of the day).  Any other string is unparseable.
DateStrings == {"2014-10-21 05:00:00", "2014-10-26 23:00:00", "1969-12-31 22:00:00"}
DateOf(t) ==
  CASE t = "2014-10-21 05:00:00" -> <<16364, 5>>
    [] t = "2014-10-26 23:00:00" -> <<16369, 23>>
    [] t = "1969-12-31 22:00:00" -> <<-1, 22>>

\* a parser that coerces what is already a timestamp to NaT
to_datetime_reparse(c) ==
  CASE c.k = "int" -> TsV(c.i \div NsPerSec, c.i % NsPerSec)
    [] c.k = "str" -> IF c.s \in DateStrings
                      THEN TsV(DateOf(c.s)[1] * SecPerDay + DateOf(c.s)[2] * SecPerHour, 0)
                      ELSE NaT
    [] OTHER -> NaT

\* pd.to_datetime(value, errors="coerce") on one cell: integers are
\* nanoseconds since the epoch, strings are parsed, whatever cannot be
\* parsed becomes NaT, a timestamp stays as it is.
to_datetime(c) ==
  CASE c.k = "ts" -> c
    [] c.k = "int" -> TsV(c.i \div NsPerSec, c.i % NsPerSec)
    [] c.k = "str" -> IF c.s \in DateStrings
                      THEN TsV(DateOf(c.s)[1] * SecPerDay + DateOf(c.s)[2] * SecPerHour, 0)
                      ELSE NaT
    [] OTHER -> NaT

\* the hour with gaps filled by 0
dt_hour_fillna_zero(c) == IF c.k = "ts" THEN IntV((c.i \div SecPerHour) % HoursPerDay) ELSE IntV(0)

\* Series.dt.hour.fillna(-1).astype(int)
dt_hour(c) == IF c.k = "ts" THEN IntV((c.i \div SecPerHour) % HoursPerDay) ELSE IntV(-1)

\* Series.dt.weekday.fillna(-1).astype(int)
dt_weekday(c) ==
  IF c.k = "ts" THEN IntV(((c.i \div SecPerDay) + EpochWeekday) % DaysPerWeek) ELSE IntV(-1)

(***************************************************************************)
(* Tables.                                                                 *)
(***************************************************************************)
Table(cs, rs) == [cols |-> cs, rows |-> rs]
NoTable == Table({}, <<>>)

Indices(rs) == 1..Len(rs)

\* a row extended or overwritten at column c
SetCol(r, c, v) == [x \in (DOMAIN r) \cup {c} |-> IF x = c THEN v ELSE r[x]]

\* transform step 2: parse hour, derive hour_of_day and weekday
ParseHour(df) ==
  IF "hour" \in df.cols
  THEN Table(df.cols \cup {"hour_of_day", "weekday"},
             [n \in Indices(df.rows) |->
                LET parsed == to_datetime(df.rows[n]["hour"])
                    r1 == SetCol(df.rows[n], "hour", parsed)
                    r2 == SetCol(r1, "hour_of_day", dt_hour(parsed))
                IN SetCol(r2, "weekday", dt_weekday(parsed))])
  ELSE df

\* DataFrame.drop_duplicates(): keep the first of every group of equal rows
RECURSIVE DropFrom(_, _)
DropFrom(rs, kept) ==
  IF rs = <<>> THEN kept
  ELSE IF \E n \in Indices(kept) : kept[n] = Head(rs)
       THEN DropFrom(Tail(rs), kept)
       ELSE DropFrom(Tail(rs), Append(kept, Head(rs)))

\* drop_duplicates(keep="last")
RECURSIVE DropFromLast(_)
DropFromLast(rs) ==
  IF rs = <<>> THEN <<>>
  ELSE IF \E n \in Indices(Tail(rs)) : Tail(rs)[n] = Head(rs)
       THEN DropFromLast(Tail(rs))
       ELSE <<Head(rs)>> \o DropFromLast(Tail(rs))

drop_duplicates_keep_last(df) == Table(df.cols, DropFromLast(df.rows))

drop_duplicates(df) == Table(df.cols, DropFrom(df.rows, <<>>))

\* transform steps 2 and 3 on the loaded frame
TransformFrame(df) == drop_duplicates(ParseHour(df))

\* the count transform logs as removed
RemovedCount(df) == Len(ParseHour(df).rows) - Len(TransformFrame(df).rows)

(***************************************************************************)
(* Validation findings.  names are the columns a finding names, n the      *)
(* count it carries.                                                       *)
(***************************************************************************)
Finding(sev, check, names, n) == [sev |-> sev, check |-> check, names |-> names, n |-> n]

Range(f) == {f[x] : x \in DOMAIN f}

expected_cols == <<"id", "click", "hour", "banner_pos">>
numeric_cols == <<"id", "click">>

\* the expected columns that are present
present_cols(df) == SelectSeq(expected_cols, LAMBDA c : c \in df.cols)

\* [c for c in expected_cols if c not in df.columns]
missing_cols(df) == SelectSeq(expected_cols, LAMBDA c : c \notin df.cols)

SchemaCheck(df) ==
  IF missing_cols(df) # <<>>
  THEN <<Finding("warning", "schema", Range(missing_cols(df)), Len(missing_cols(df)))>>
  ELSE <<Finding("info", "schema", {}, 0)>>

\* df.isnull().sum() for one column
null_count(df, c) == Cardinality({n \in Indices(df.rows) : df.rows[n][c].k = "null"})

null_report(df) == {c \in df.cols : null_count(df, c) > 0}

NullCheck(df) ==
  IF null_report(df) # {}
  THEN <<Finding("warning", "null", null_report(df), Cardinality(null_report(df)))>>
  ELSE <<Finding("info", "null", {}, 0)>>

\* pd.api.types.is_numeric_dtype: an empty csv column and a column holding
\* a string are read as object; integers with or without gaps are numeric
is_numeric_dtype(df, c) ==
  /\ Len(df.rows) > 0
  /\ \A n \in Indices(df.rows) : df.rows[n][c].k \in {"int", "null"}

RECURSIVE TypeCheckFrom(_, _)
TypeCheckFrom(df, cs) ==
  IF cs = <<>> THEN <<>>
  ELSE (IF Head(cs) \in df.cols /\ ~is_numeric_dtype(df, Head(cs))
        THEN <<Finding("warning", "type", {Head(cs)}, 0)>>
        ELSE <<>>) \o TypeCheckFrom(df, Tail(cs))

TypeCheck(df) == TypeCheckFrom(df, numeric_cols)

\* duplicated(keep=False): every row whose id occurs more than once
dup_ids_keep_false(df) ==
  Cardinality({n \in Indices(df.rows) :
                 \E m \in Indices(df.rows) : m # n /\ df.rows[m]["id"] = df.rows[n]["id"]})

\* df["id"].duplicated().sum(): rows whose id already occurred above
dup_ids(df) ==
  Cardinality({n \in Indices(df.rows) :
                 \E m \in 1..(n - 1) : df.rows[m]["id"] = df.rows[n]["id"]})

UniqueCheck(df) ==
  IF "id" \in df.cols
  THEN IF dup_ids(df) > 0
       THEN <<Finding("warning", "unique", {"id"}, dup_ids(df))>>
       ELSE <<Finding("info", "unique", {}, 0)>>
  ELSE <<>>

\* the findings validate_data logs, in order, between load and completion
ValidateFrame(df) == SchemaCheck(df) \o NullCheck(df) \o TypeCheck(df) \o UniqueCheck(df)

(***************************************************************************)
(* Files and paths.                                                        *)
(***************************************************************************)
File(fmt, df) == [fmt |-> fmt, df |-> df]
Missing == File("none", NoTable)
Corrupt == File("corrupt", NoTable)

raw_path == "data/raw/train.gz"
sample_path == "data/samples/train_sample.csv"
staged_path == "data/staged/train_transformed.csv"
curated_path == "data/curated/train_curated.parquet"
\* the output path a user of the transform command line names
user_parquet_path == "data/staged/train_transformed.parquet"

Paths == {raw_path, sample_path, staged_path, curated_path, user_parquet_path}

\* Path.suffix
suffix(p) ==
  CASE p \in {sample_path, staged_path} -> ".csv"
    [] p \in {curated_path, user_parquet_path} -> ".parquet"
    [] OTHER -> ".gz"

\* whether a reader expecting format fmt can load the file: a missing file,
\* a corrupt one, and bytes of another format all make the reader raise
CanRead(f, fmt) == f.fmt = fmt

\* the reader validate_data picks from the path's suffix
validate_reader(p) == IF suffix(p) = ".csv" THEN "csv" ELSE "parquet"

\* df.head as nrows=n_rows reads it
FirstRows(df, n) == Table(df.cols, SubSeq(df.rows, 1, IF Len(df.rows) < n THEN Len(df.rows) ELSE n))

\* the sample row cap of the configuration, SAMPLE_ROWS unset
sample_rows == 10000

(***************************************************************************)
(* Raw inputs: every table of at most MaxRows rows over id and hour, every  *)
(* table of at most MaxSchemaRows rows over any subset of the expected     *)
(* columns, and the example tables of the design notes.  An hour column    *)
(* holds integers (the YYMMDDHH codes of the click data) or strings.  A     *)
(* csv file has at least one column: pandas refuses a file without any.    *)
(***************************************************************************)
HourKinds == {"int", "str"}

ColValues(c, kind) ==
  CASE c = "id" -> {IntV(1), IntV(2)}
    [] c = "hour" -> IF kind = "int"
                     THEN {Null, IntV(14102100), IntV(14102101)}
                     ELSE {Null, StrV("not a time"), StrV("2014-10-26 23:00:00")}
    [] OTHER -> {IntV(0)}

AllValues == UNION {ColValues(c, kind) : c \in Range(expected_cols), kind \in HourKinds}

RowsOver(cs, kind) == {r \in [cs -> AllValues] : \A c \in cs : r[c] \in ColValues(c, kind)}

TablesOver(cs, kind, max) ==
  {Table(cs, rs) : rs \in UNION {[1..n -> RowsOver(cs, kind)] : n \in 0..max}}

ExampleRow(n, h) == [id |-> IntV(n), hour |-> IntV(h)]
\* positions 2, 5 and 7 (counted from 0) duplicate position 0
DupExample ==
  Table({"id", "hour"},
        <<ExampleRow(1, 14102100), ExampleRow(2, 14102100), ExampleRow(1, 14102100),
          ExampleRow(2, 14102101), ExampleRow(1, 14102101), ExampleRow(1, 14102100),
          ExampleRow(2, 14102102), ExampleRow(1, 14102100)>>)

\* ids 1, 1, 2, 3
IdExample ==
  Table({"id", "click"}, [n \in 1..4 |-> [id |-> IntV(IF n = 1 THEN 1 ELSE n - 1), click |-> IntV(0)]])

\* every date string the parser knows, a string it does not know, and a gap
HourExample ==
  Table({"hour"},
        <<[hour |-> StrV("2014-10-21 05:00:00")], [hour |-> StrV("1969-12-31 22:00:00")],
          [hour |-> StrV("2014-10-26 23:00:00")], [hour |-> StrV("soon")], [hour |-> Null]>>)

RawTables ==
  UNION {TablesOver({"id", "hour"}, kind, MaxRows) : kind \in HourKinds}
    \cup UNION {TablesOver(cs, kind, MaxSchemaRows) :
                  cs \in (SUBSET Range(expected_cols)) \ {{}}, kind \in HourKinds}
    \cup {DupExample, IdExample, HourExample}

(***************************************************************************)
(* State.                                                                  *)
(***************************************************************************)
VARIABLES
  fs,         \* the data directory: path -> file
  pc,         \* where run_pipeline is: idle, extract, transform, validate, load, done, aborted
  trace,      \* the stages run_pipeline has called, each with whether it raised
  completed,  \* run_pipeline logged "ETL pipeline completed successfully"
  last        \* the most recent call of a stage function and what it did

vars == <<fs, pc, trace, completed, last>>

Call(caller, inp, out) == [caller |-> caller, inp |-> inp, out |-> out]

Done(op, call, raised, loaded, result, removed, report, wrote, upload) ==
  [op |-> op, caller |-> call.caller, inp |-> call.inp, out |-> call.out,
   raised |-> raised, loaded |-> loaded, result |-> result, removed |-> removed,
   report |-> report, wrote |-> wrote, upload |-> upload]

NoCall == Done("none", Call("none", "", ""), FALSE, NoTable, NoTable, 0, <<>>, FALSE, "")

Init ==
  /\ \E raw \in {Missing, Corrupt} \cup {File("gz", t) : t \in RawTables} :
       fs = [p \in Paths |-> IF p = raw_path THEN raw ELSE Missing]
  /\ pc = "idle"
  /\ trace = <<>>
  /\ completed = FALSE
  /\ last = NoCall

(***************************************************************************)
(* run_pipeline: the stage that follows a stage, or the abort when the     *)
(* stage raised (the exception leaves run_pipeline).                       *)
(***************************************************************************)
next_stage(stage) ==
  CASE stage = "extract" -> "transform"
    [] stage = "transform" -> "validate"
    [] stage = "validate" -> "load"
    [] stage = "load" -> "done"

\* an orchestrator that logs a stage's error and goes on
advance_swallow(stage, raised) == next_stage(stage)

advance(stage, raised) == IF raised THEN "aborted" ELSE next_stage(stage)

\* what a call of a stage function does to run_pipeline's own state
Orchestrate(call, stage, raised) ==
  IF call.caller = "pipeline"
  THEN /\ pc' = advance(stage, raised)
       /\ trace' = Append(trace, [stage |-> stage, raised |-> raised])
       /\ completed' = (advance(stage, raised) = "done")
  ELSE UNCHANGED <<pc, trace, completed>>

\* the calls of a stage function that can happen now: run_pipeline's own,
\* with the configured paths, or a command-line call while it is not running
Calls(stage, inp, out, direct) ==
  IF pc = stage THEN {Call("pipeline", inp, out)}
  ELSE IF pc = "idle" THEN direct
  ELSE {}

\* the orchestrator is started on a data directory that holds the raw file only
run_pipeline ==
  /\ pc = "idle"
  /\ last = NoCall
  /\ pc' = "extract"
  /\ UNCHANGED <<fs, trace, completed, last>>

(***************************************************************************)
(* The stage functions.                                                    *)
(***************************************************************************)
extract_sample ==
  \E call \in Calls("extract", raw_path, sample_path, {Call("cli", raw_path, sample_path)}) :
    LET f == fs[call.inp]
        ok == CanRead(f, "gz")
        df == FirstRows(f.df, sample_rows)
    IN /\ fs' = IF ok THEN [fs EXCEPT ![call.out] = File("csv", df)] ELSE fs
       /\ last' = IF ok THEN Done("extract", call, FALSE, f.df, df, 0, <<>>, TRUE, "")
                  ELSE Done("extract", call, TRUE, NoTable, NoTable, 0, <<>>, FALSE, "")
       /\ Orchestrate(call, "extract", ~ok)

transform ==
  \E call \in Calls("transform", sample_path, staged_path,
                    {Call("cli", i, user_parquet_path) : i \in {sample_path, user_parquet_path}}) :
    LET f == fs[call.inp]
        ok == CanRead(f, "csv")
        df == TransformFrame(f.df)
    IN /\ fs' = IF ok THEN [fs EXCEPT ![call.out] = File("parquet", df)] ELSE fs
       /\ last' = IF ok
                  THEN Done("transform", call, FALSE, f.df, df, RemovedCount(f.df), <<>>, TRUE, "")
                  ELSE Done("transform", call, TRUE, NoTable, NoTable, 0, <<>>, FALSE, "")
       /\ Orchestrate(call, "transform", ~ok)

validate_data ==
  \E call \in Calls("validate", staged_path, "",
                    {Call("cli", i, "") : i \in {sample_path, user_parquet_path}}) :
    LET f == fs[call.inp]
        ok == CanRead(f, validate_reader(call.inp))
    IN /\ fs' = fs
       /\ last' = IF ok
                  THEN Done("validate", call, FALSE, f.df, NoTable, 0, ValidateFrame(f.df), FALSE, "")
                  ELSE Done("validate", call, TRUE, NoTable, NoTable, 0, <<>>, FALSE, "")
       /\ Orchestrate(call, "validate", ~ok)

\* upload_to_s3: what it logs and whether it raises, given whether boto3
\* could be imported and how the upload went
UploadOutcomes == {"uploaded", "no_credentials", "error"}

\* an upload step that catches the missing credentials only
upload_to_s3_reraise(available, outcome) ==
  IF ~available THEN [raised |-> FALSE, log |-> "skipped: boto3 not installed"]
  ELSE CASE outcome = "uploaded" -> [raised |-> FALSE, log |-> "uploaded"]
         [] outcome = "no_credentials" -> [raised |-> FALSE, log |-> "skipped: no credentials"]
         [] OTHER -> [raised |-> TRUE, log |-> ""]

upload_to_s3(available, outcome) ==
  IF ~available THEN [raised |-> FALSE, log |-> "skipped: boto3 not installed"]
  ELSE CASE outcome = "uploaded" -> [raised |-> FALSE, log |-> "uploaded"]
         [] outcome = "no_credentials" -> [raised |-> FALSE, log |-> "skipped: no credentials"]
         [] OTHER -> [raised |-> FALSE, log |-> "upload failed"]

load_to_curated ==
  \E call \in Calls("load", staged_path, curated_path,
                    {Call("cli", i, curated_path) : i \in {sample_path, user_parquet_path}}),
     AWS_AVAILABLE \in BOOLEAN, outcome \in UploadOutcomes :
    LET f == fs[call.inp]
        ok == CanRead(f, "csv")
        up == upload_to_s3(AWS_AVAILABLE, outcome)
    IN /\ fs' = IF ok THEN [fs EXCEPT ![call.out] = File("parquet", f.df)] ELSE fs
       /\ last' = IF ok
                  THEN Done("load", call, up.raised, f.df, f.df, 0, <<>>, TRUE, up.log)
                  ELSE Done("load", call, TRUE, NoTable, NoTable, 0, <<>>, FALSE, "")
       /\ Orchestrate(call, "load", IF ok THEN up.raised ELSE TRUE)

Next ==
  \/ run_pipeline
  \/ extract_sample
  \/ transform
  \/ validate_data
  \/ load_to_curated

Spec == Init /\ [][Next]_vars

(***************************************************************************)
(* The frame-level view of transform: steps 2 and 3 applied to a frame in  *)
(* memory, then applied again to what they returned.                       *)
(***************************************************************************)
InitFrame ==
  /\ fs = [p \in Paths |-> Missing]
  /\ pc = "idle"
  /\ trace = <<>>
  /\ completed = FALSE
  /\ \E t \in RawTables :
       last = Done("frame", Call("frame", "", ""), FALSE, NoTable, t, 0, <<>>, FALSE, "")

transform_frame ==
  /\ last.op \in {"frame", "transform", "transform_again"}
  /\ last' = Done(IF last.op = "frame" THEN "transform" ELSE "transform_again",
                  Call("frame", "", ""), FALSE, last.result, TransformFrame(last.result),
                  RemovedCount(last.result), <<>>, FALSE, "")
  /\ UNCHANGED <<fs, pc, trace, completed>>

NextFrame == transform_frame

SpecFrame == InitFrame /\ [][NextFrame]_vars

(***************************************************************************)
(* Properties.                                                             *)
(***************************************************************************)
TransformDone == last.op = "transform" /\ ~last.raised
ValidateDone == last.op = "validate" /\ ~last.raised

\* an hour value that is null or that the parser cannot read
Unparseable(c) == c.k = "null" \/ (c.k = "str" /\ c.s \notin DateStrings)

Sentinel == IntV(-1)
HourRange == {IntV(n) : n \in 0..23}
WeekdayRange == {IntV(n) : n \in 0..6}

\* the columns of a row other than hour and the derived ones
SameElsewhere(r, q, cs) == \A c \in cs \ {"hour", "hour_of_day", "weekday"} : r[c] = q[c]

\* C1: when the input has an hour column, every output row has hour_of_day
\* in {-1, 0..23} and weekday in {-1, 0..6}, the two are -1 together or not
\* at all, every input row whose hour is null or unparseable is found in the
\* output with both at -1, and transform did not raise on the readable file.
C1_HourFeatures ==
  (last.op = "transform" /\ CanRead(fs[last.inp], "csv") /\ last.inp # last.out
     /\ "hour" \in fs[last.inp].df.cols) =>
    /\ ~last.raised
    /\ last.loaded = fs[last.inp].df
    /\ \A k \in Indices(last.result.rows) :
         LET r == last.result.rows[k]
         IN /\ r["hour_of_day"] \in HourRange \cup {Sentinel}
            /\ r["weekday"] \in WeekdayRange \cup {Sentinel}
            /\ (r["hour_of_day"] = Sentinel) <=> (r["weekday"] = Sentinel)
    /\ \A n \in Indices(last.loaded.rows) :
         Unparseable(last.loaded.rows[n]["hour"]) =>
           \E k \in Indices(last.result.rows) :
             /\ SameElsewhere(last.result.rows[k], last.loaded.rows[n], last.loaded.cols)
             /\ last.result.rows[k]["hour_of_day"] = Sentinel
             /\ last.result.rows[k]["weekday"] = Sentinel

\* a transform of a table holding an unparseable hour, a gap and the hours 22 and 23
C1_Witness ==
  /\ TransformDone
  /\ "hour" \in last.loaded.cols
  /\ \E n \in Indices(last.loaded.rows) : last.loaded.rows[n]["hour"] = StrV("soon")
  /\ \E n \in Indices(last.loaded.rows) : last.loaded.rows[n]["hour"] = Null
  /\ \E k \in Indices(last.result.rows) :
       last.result.rows[k]["hour_of_day"] = IntV(23) /\ last.result.rows[k]["weekday"] = IntV(6)
  /\ \E k \in Indices(last.result.rows) :
       last.result.rows[k]["hour_of_day"] = IntV(22) /\ last.result.rows[k]["weekday"] = IntV(2)
  /\ \E k \in Indices(last.result.rows) :
       last.result.rows[k]["hour_of_day"] = Sentinel /\ last.result.rows[k]["weekday"] = Sentinel

\* the rows of a frame that equal no earlier row, by position
FirstOccurrences(rs) == {n \in Indices(rs) : ~\E m \in 1..(n - 1) : rs[m] = rs[n]}
\* the k-th smallest member of a set of positions
Kth(K, k) == CHOOSE n \in K : Cardinality({m \in K : m <= n}) = k

C3_InputColumnsKept ==
  TransformDone =>
    \A k \in Indices(last.result.rows) :
      \E n \in Indices(last.loaded.rows) :
        \A c \in last.loaded.cols : last.result.rows[k][c] = last.loaded.rows[n][c]

FindingsOf(check) == SelectSeq(last.report, LAMBDA f : f.check = check)

\* C5: the schema check yields exactly one finding: a warning naming
\* exactly the absent expected columns when one is absent, an info finding
\* when all are present.
C5_SchemaFinding ==
  ValidateDone =>
    LET absent == {"id", "click", "hour", "banner_pos"} \ last.loaded.cols
        fnd == FindingsOf("schema")
    IN /\ Len(fnd) = 1
       /\ absent # {} => fnd[1].sev = "warning" /\ fnd[1].names = absent
       /\ absent = {} => fnd[1].sev = "info" /\ fnd[1].names = {}

\* a table that lacks click only
C5_Witness ==
  /\ ValidateDone
  /\ last.loaded.cols = {"id", "hour", "banner_pos"}
  /\ FindingsOf("schema") = <<Finding("warning", "schema", {"click"}, 1)>>

\* C6: with an id column the uniqueness check yields exactly one finding,
\* a warning carrying the number of rows whose id repeats an earlier row's
\* (rows minus distinct ids) when that is positive and an info finding when
\* it is 0; without an id column it yields none.
C6_UniqueFinding ==
  ValidateDone =>
    LET fnd == FindingsOf("unique")
        ids == {last.loaded.rows[n]["id"] : n \in Indices(last.loaded.rows)}
        repeats == Len(last.loaded.rows) - Cardinality(ids)
    IN IF "id" \in last.loaded.cols
       THEN /\ Len(fnd) = 1
            /\ repeats > 0 => fnd[1].sev = "warning" /\ fnd[1].n = repeats
            /\ repeats = 0 => fnd[1].sev = "info"
       ELSE fnd = <<>>

\* ids 1, 1, 2, 3 give one warning with count 1
C6_Witness ==
  /\ ValidateDone
  /\ last.loaded = IdExample
  /\ FindingsOf("unique") = <<Finding("warning", "unique", {"id"}, 1)>>

\* C7: validate_data, given a file that holds a well-formed table, returns
\* without raising after running the schema and null checks, and when
\* run_pipeline called it the next stage is the load.
C7_ValidateNeverBlocks ==
  (last.op = "validate" /\ fs[last.inp].fmt \in {"csv", "parquet"}) =>
    /\ ~last.raised
    /\ Len(FindingsOf("schema")) = 1
    /\ Len(FindingsOf("null")) = 1
    /\ last.caller = "pipeline" => pc = "load"

StageOrder == <<"extract", "transform", "validate", "load">>

\* C8: the stages run_pipeline has called are a prefix of Extract,
\* Transform, Validate, Load; a stage that raised is the last one called and
\* leaves the run aborted; success is logged only after all four returned.
C8_StageOrder ==
  /\ Len(trace) <= Len(StageOrder)
  /\ \A n \in Indices(trace) : trace[n].stage = StageOrder[n]
  /\ \A n \in Indices(trace) : trace[n].raised => (n = Len(trace) /\ pc = "aborted")
  /\ (\E n \in Indices(trace) : trace[n].raised) => ~completed
  /\ completed => Len(trace) = Len(StageOrder)
  /\ pc \in Range(StageOrder) => pc = StageOrder[Len(trace) + 1]

\* a run whose third stage raised a read failure
C8_Witness ==
  /\ pc = "aborted"
  /\ Len(trace) = 3
  /\ ~trace[1].raised /\ ~trace[2].raised /\ trace[3].raised
  /\ ~completed

\* C9: once load_to_curated has written the curated file it returns
\* normally with the upload step's outcome logged, and the file is in place.
C9_UploadBestEffort ==
  (last.op = "load" /\ last.wrote) =>
    /\ ~last.raised
    /\ last.upload # ""
    /\ fs[last.out] = File("parquet", last.loaded)

\* a load whose upload failed
C9_Witness ==
  /\ last.op = "load"
  /\ last.wrote
  /\ last.upload = "upload failed"
  /\ Len(last.loaded.rows) > 0

\* C10: a run whose raw input was readable ends done, and the curated file
\* holds the table transform staged.
C10_TableHandedOn ==
  (pc \in {"done", "aborted"} /\ Len(trace) >= 1 /\ ~trace[1].raised) =>
    /\ pc = "done"
    /\ fs[curated_path].df = fs[staged_path].df

====
